---- MODULE Spec2Model ----
(***************************************************************************)
(* Model of the donation pipeline of src/utils/donationProcessor.ts:       *)
(* parseExcelData -> processDonations -> separateByMapping ->              *)
(* generateSummary -> generateStats, as run by processExcelFile (Spec);    *)
(* of single calls of findColumnIndex and parseDate (SpecCall); of the     *)
(* mapping editor ChurchMappingConfig (SpecConfig); and of the Index page  *)
(* with its FileUpload (SpecPage).                                         *)
(*                                                                         *)
(* Representation.                                                         *)
(*  - Text is a sequence of one-character strings, so that trim, replace,  *)
(*    includes and template concatenation are computed character by        *)
(*    character.  Church names are only compared and tested for            *)
(*    emptiness by the pipeline, so they stay atomic strings there; the    *)
(*    names typed or imported in the mapping editor are trimmed and are    *)
(*    texts.                                                               *)
(*  - A JavaScript number is a record [k, v]: k = "fin" with v the value   *)
(*    in thousandths (fixed point, Scale), k = "inf" with v = 1 or -1 for  *)
(*    +Infinity / -Infinity, k = "nan" for NaN.  The finite amounts of the *)
(*    model are decimals with at most three fraction digits whose product  *)
(*    by 100 is exact in binary floating point or is no rounding tie, so   *)
(*    the fixed-point arithmetic below agrees with the double arithmetic   *)
(*    of the code on them.                                                 *)
(*  - A Date is its time value, a number record counted in days since      *)
(*    1970-01-01 UTC (thousandths of a day) instead of milliseconds; NaN   *)
(*    is the Invalid Date.  The local time zone is taken to be UTC.        *)
(***************************************************************************)
EXTENDS Integers, Sequences, FiniteSets, TLC

(***************************************************************************)
(* Bounds of the model.                                                    *)
(***************************************************************************)
\* Largest number of data rows of a grid.
MaxRows == 3

(***************************************************************************)
(* JavaScript numbers.                                                     *)
(***************************************************************************)
\* Fixed-point resolution of finite numbers: v = value * Scale.
Scale == 10 * 10 * 10

Fin(v) == [k |-> "fin", v |-> v]
PosInf == [k |-> "inf", v |-> 1]
NegInf == [k |-> "inf", v |-> -1]
NaN == [k |-> "nan", v |-> 0]
\* A whole number n.
Whole(n) == Fin(n * Scale)

\* isNaN(x)
IsNaN(x) == x.k = "nan"

\* -x
Neg(x) == IF x.k = "nan" THEN NaN ELSE [k |-> x.k, v |-> -x.v]

\* Math.abs(x)
MathAbs(x) == IF x.k = "nan" THEN NaN ELSE [k |-> x.k, v |-> IF x.v < 0 THEN -x.v ELSE x.v]

\* x * 100 (the finite amounts of the model stay below 21,000, so that the
\* product fits the integers of the model checker)
Times100(x) == IF x.k = "fin" THEN Fin(x.v * 100) ELSE x

\* Math.round(x): the nearest integer, ties toward +Infinity; Infinity and
\* NaN are returned unchanged.
MathRound(x) == IF x.k = "fin" THEN Fin(((x.v + (Scale \div 2)) \div Scale) * Scale) ELSE x

\* x % 100 (the remainder takes the sign of the dividend; Infinity % 100 and
\* NaN % 100 are NaN).
Mod100(x) ==
  IF x.k # "fin" THEN NaN
  ELSE IF x.v >= 0 THEN Fin(x.v % (100 * Scale))
  ELSE Fin(-((-x.v) % (100 * Scale)))

\* x < 0
LessThanZero(x) == x.k # "nan" /\ x.v < 0

\* x + y, for the operands that occur in summary totals (0 and |amount|).
Plus(x, y) ==
  IF x.k = "nan" \/ y.k = "nan" THEN NaN
  ELSE IF x.k = "inf" /\ y.k = "inf" THEN (IF x.v = y.v THEN x ELSE NaN)
  ELSE IF x.k = "inf" THEN x
  ELSE IF y.k = "inf" THEN y
  ELSE Fin(x.v + y.v)

\* The sign of b - a as a sort comparator sees it: NaN counts as 0.
CompareDesc(a, b) ==
  IF a.k = "nan" \/ b.k = "nan" THEN 0
  ELSE IF a.k = "inf" /\ b.k = "inf" THEN (IF a.v = b.v THEN 0 ELSE b.v)
  ELSE IF b.k = "inf" THEN b.v
  ELSE IF a.k = "inf" THEN -a.v
  ELSE IF b.v > a.v THEN 1 ELSE IF b.v < a.v THEN -1 ELSE 0

(***************************************************************************)
(* Text.                                                                   *)
(***************************************************************************)
Digits == <<"0", "1", "2", "3", "4", "5", "6", "7", "8", "9">>

IsDigit(c) == \E d \in 1..10 : Digits[d] = c

DigitValue(c) == (CHOOSE d \in 1..10 : Digits[d] = c) - 1

\* The white space of the model's texts.
IsSpace(c) == c = " "

RECURSIVE NatToText(_)
\* The decimal digits of a natural number.
NatToText(n) == IF n < 10 THEN <<Digits[n + 1]>> ELSE NatToText(n \div 10) \o <<Digits[(n % 10) + 1]>>

\* s left-padded with zeros to w characters.
RECURSIVE PadStart(_, _)
PadStart(s, w) == IF Len(s) >= w THEN s ELSE PadStart(<<"0">> \o s, w)

RECURSIVE DigitsToNat(_)
\* parseInt of a run of decimal digits.
DigitsToNat(s) == IF s = <<>> THEN 0 ELSE DigitsToNat(SubSeq(s, 1, Len(s) - 1)) * 10 + DigitValue(s[Len(s)])

\* s.replace(/[...]/g, ''): every character of the set drop is removed.
RemoveAll(s, drop) == SelectSeq(s, LAMBDA c : c \notin drop)

\* s.replace(from, to) with a string pattern: only the first occurrence.
ReplaceFirst(s, from, to) ==
  IF \E i \in 1..Len(s) : s[i] = from
  THEN LET i == CHOOSE j \in 1..Len(s) : s[j] = from /\ \A h \in 1..(j - 1) : s[h] # from
       IN SubSeq(s, 1, i - 1) \o <<to>> \o SubSeq(s, i + 1, Len(s))
  ELSE s

\* s.includes(t)
Includes(s, t) == \E i \in 1..(Len(s) - Len(t) + 1) : SubSeq(s, i, i + Len(t) - 1) = t

RECURSIVE TrimStart(_)
TrimStart(s) == IF s # <<>> /\ IsSpace(s[1]) THEN TrimStart(Tail(s)) ELSE s

RECURSIVE TrimEnd(_)
TrimEnd(s) == IF s # <<>> /\ IsSpace(s[Len(s)]) THEN TrimEnd(SubSeq(s, 1, Len(s) - 1)) ELSE s

\* s.trim()
Trim(s) == TrimEnd(TrimStart(s))

\* c.toLowerCase() for the letters of the model's header texts.
LowerChar(c) ==
  CASE c = "D" -> "d" [] c = "A" -> "a" [] c = "T" -> "t" [] c = "V" -> "v"
    [] c = "L" -> "l" [] c = "O" -> "o" [] c = "R" -> "r" [] OTHER -> c

\* s.toLowerCase()
ToLowerCase(s) == [i \in 1..Len(s) |-> LowerChar(s[i])]

\* The longest prefix of s made of digits.
RECURSIVE DigitPrefixLen(_)
DigitPrefixLen(s) == IF s # <<>> /\ IsDigit(s[1]) THEN 1 + DigitPrefixLen(Tail(s)) ELSE 0

T_Infinity == <<"I", "n", "f", "i", "n", "i", "t", "y">>

\* String(x) of a number: the shortest decimal form, "Infinity", "NaN".
NumberToText(x) ==
  IF x.k = "nan" THEN <<"N", "a", "N">>
  ELSE IF x.k = "inf" THEN (IF x.v < 0 THEN <<"-">> ELSE <<>>) \o T_Infinity
  ELSE LET a == IF x.v < 0 THEN -x.v ELSE x.v
           whole == a \div Scale
           frac == a % Scale
           fracText == IF frac = 0 THEN <<>>
                       ELSE IF frac % 100 = 0 THEN <<".">> \o NatToText(frac \div 100)
                       ELSE IF frac % 10 = 0 THEN <<".">> \o PadStart(NatToText(frac \div 10), 2)
                       ELSE <<".">> \o PadStart(NatToText(frac), 3)
       IN (IF x.v < 0 THEN <<"-">> ELSE <<>>) \o NatToText(whole) \o fracText

\* parseFloat(s): optional leading white space and sign, then "Infinity" or
\* the longest decimal literal (digits, optionally a point and digits); NaN
\* when there is none.  The model's texts hold no exponent marker; fraction
\* digits beyond the third are below the model's resolution.
ParseFloat(s0) ==
  LET s1 == TrimStart(s0)
      signed == s1 # <<>> /\ s1[1] \in {"+", "-"}
      sign == IF signed /\ s1[1] = "-" THEN -1 ELSE 1
      s == IF signed THEN Tail(s1) ELSE s1
      n == DigitPrefixLen(s)
      rest == SubSeq(s, n + 1, Len(s))
      hasPoint == rest # <<>> /\ rest[1] = "."
      m == IF hasPoint THEN DigitPrefixLen(Tail(rest)) ELSE 0
      fracDigits == IF hasPoint THEN SubSeq(rest, 2, 1 + m) ELSE <<>>
      frac3 == SubSeq(fracDigits \o <<"0", "0", "0">>, 1, 3)
  IN IF Len(s) >= Len(T_Infinity) /\ SubSeq(s, 1, Len(T_Infinity)) = T_Infinity
     THEN [k |-> "inf", v |-> sign]
     ELSE IF n = 0 /\ m = 0 THEN NaN
     ELSE Fin(sign * (DigitsToNat(SubSeq(s, 1, n)) * Scale + DigitsToNat(frac3)))

(***************************************************************************)
(* Dates.                                                                  *)
(***************************************************************************)
\* The number of days from 1970-01-01 to the first day of month m (1..12)
\* of year y in the proleptic Gregorian calendar, plus d - 1 days.
DaysFromCivil(y, m, d) ==
  LET yy == IF m <= 2 THEN y - 1 ELSE y
      era == yy \div 400
      yoe == yy - era * 400
      mp == IF m > 2 THEN m - 3 ELSE m + 9
      doy == (153 * mp + 2) \div 5 + d - 1
      doe == yoe * 365 + yoe \div 4 - yoe \div 100 + doy
  IN era * 146097 + doe - 719468

\* The calendar date <<year, month, day>> of day number z since 1970-01-01.
CivilFromDays(z) ==
  LET zz == z + 719468
      era == zz \div 146097
      doe == zz - era * 146097
      yoe == (doe - doe \div 1460 + doe \div 36524 - doe \div 146096) \div 365
      doy == doe - (365 * yoe + yoe \div 4 - yoe \div 100)
      mp == (5 * doy + 2) \div 153
      d == doy - (153 * mp + 2) \div 5 + 1
      m == IF mp < 10 THEN mp + 3 ELSE mp - 9
      y == yoe + era * 400 + (IF m <= 2 THEN 1 ELSE 0)
  IN <<y, m, d>>

\* A Date object holding time value t; null is NoDate.
DateOf(t) == [some |-> TRUE, t |-> t]
NoDate == [some |-> FALSE, t |-> NaN]

\* TimeClip of new Date(number): a non-finite time value or one beyond
\* 100,000,000 days from the epoch gives the Invalid Date.  Every finite
\* number of the model lies within that range.
TimeClip(t) == IF t.k = "fin" THEN t ELSE NaN

\* new Date(year, monthIndex, day) with integer arguments: years 0..99 mean
\* 1900..1999, month and day overflow carry into the year and the month.
NewDateYMD(year, monthIndex, day) ==
  LET y == IF year >= 0 /\ year <= 99 THEN 1900 + year ELSE year
  IN DateOf(Whole(DaysFromCivil(y + monthIndex \div 12, (monthIndex % 12) + 1, 1) + day - 1))

\* date.getTime() is NaN
IsInvalidDate(d) == IsNaN(d.t)

\* date.toISOString().split('T')[0] of a valid date: YYYY-MM-DD of the UTC
\* day (years 0..9999).
ISODate(d) ==
  LET c == CivilFromDays(d.t.v \div Scale)
  IN PadStart(NatToText(c[1]), 4) \o <<"-">> \o PadStart(NatToText(c[2]), 2)
       \o <<"-">> \o PadStart(NatToText(c[3]), 2)

(***************************************************************************)
(* Cells of the decoded grid: absent, a number, or a text.                 *)
(***************************************************************************)
Absent == [t |-> "absent", n |-> NaN, s |-> <<>>]
NumCell(n) == [t |-> "num", n |-> n, s |-> <<>>]
TextCell(s) == [t |-> "text", n |-> NaN, s |-> s]

\* row[index] with a 0-based index: undefined beyond the row's cells.
CellAt(row, index) == IF index >= 0 /\ index < Len(row) THEN row[index + 1] ELSE Absent

\* !value
IsFalsy(cell) ==
  \/ cell.t = "absent"
  \/ cell.t = "num" /\ (IsNaN(cell.n) \/ (cell.n.k = "fin" /\ cell.n.v = 0))
  \/ cell.t = "text" /\ cell.s = <<>>

\* String(value)
StringOf(cell) ==
  CASE cell.t = "absent" -> <<"u", "n", "d", "e", "f", "i", "n", "e", "d">>
    [] cell.t = "num" -> NumberToText(cell.n)
    [] cell.t = "text" -> cell.s

\* String(value || '')
StringOrEmpty(cell) == IF IsFalsy(cell) THEN <<>> ELSE StringOf(cell)

(***************************************************************************)
(* parseDate                                                               *)
(***************************************************************************)
RECURSIVE Split(_, _)
\* s.split(sep)
Split(s, sep) ==
  IF \E i \in 1..Len(s) : s[i] = sep
  THEN LET i == CHOOSE j \in 1..Len(s) : s[j] = sep /\ \A h \in 1..(j - 1) : s[h] # sep
       IN <<SubSeq(s, 1, i - 1)>> \o Split(SubSeq(s, i + 1, Len(s)), sep)
  ELSE <<s>>

AllDigits(s) == \A i \in 1..Len(s) : IsDigit(s[i])

\* The three regular expressions of parseDate, as separator and capture
\* groups: "d12" is (\d{1,2}) and "d4" is (\d{4}).
DatePatterns ==
  << [sep |-> "/", groups |-> <<"d12", "d12", "d4">>],
     [sep |-> "-", groups |-> <<"d12", "d12", "d4">>],
     [sep |-> "-", groups |-> <<"d4", "d12", "d12">>] >>

GroupMatches(g, part) ==
  /\ AllDigits(part)
  /\ IF g = "d4" THEN Len(part) = 4 ELSE Len(part) \in {1, 2}

\* dateStr.match(pattern): the captured parts, or <<>> for no match.
Match(dateStr, pattern) ==
  LET parts == Split(dateStr, pattern.sep)
  IN IF Len(parts) = 3 /\ \A i \in 1..3 : GroupMatches(pattern.groups[i], parts[i])
     THEN parts ELSE <<>>

\* pattern.source.includes('(\\d{4})'): the source text of the pattern
\* holds the group (\d{4}) somewhere.
SourceIncludesD4(pattern) == \E i \in 1..3 : pattern.groups[i] = "d4"

\* new Date(dateStr) for a text that none of the patterns matches.  The
\* texts of the model that reach it hold no date, and Date.parse gives
\* NaN for them.
NewDateFromText(dateStr) == DateOf(NaN)

RECURSIVE TryPatterns(_, _)
TryPatterns(dateStr, p) ==
  IF p > Len(DatePatterns)
  THEN LET parsed == NewDateFromText(dateStr)
       IN IF IsNaN(parsed.t) THEN NoDate ELSE parsed
  ELSE LET match == Match(dateStr, DatePatterns[p])
       IN IF match # <<>>
          THEN IF SourceIncludesD4(DatePatterns[p])
               THEN NewDateYMD(DigitsToNat(match[1]), DigitsToNat(match[2]) - 1, DigitsToNat(match[3]))
               ELSE NewDateYMD(DigitsToNat(match[3]), DigitsToNat(match[2]) - 1, DigitsToNat(match[1]))
          ELSE TryPatterns(dateStr, p + 1)

\* The offset of the Excel serial day count from the epoch.
ExcelEpochOffset == 25569

parseDate(value) ==
  IF IsFalsy(value) THEN NoDate
  ELSE IF value.t = "num"
  THEN DateOf(TimeClip(IF value.n.k = "fin" THEN Fin(value.n.v - ExcelEpochOffset * Scale) ELSE value.n))
  ELSE TryPatterns(StringOf(value), 1)

(***************************************************************************)
(* parseAmount                                                             *)
(***************************************************************************)
parseAmount(value) ==
  IF value.t = "num" THEN value.n
  ELSE LET str == Trim(StringOrEmpty(value))
           normalized == ReplaceFirst(RemoveAll(RemoveAll(str, {"R", "$", " "}), {"."}), ",", ".")
           isNegative == Includes(normalized, <<"-">>) \/ Includes(normalized, <<"(">>)
           amount == ParseFloat(RemoveAll(normalized, {"-", "(", ")"}))
       IN IF str = <<>> THEN NaN
          ELSE IF isNegative THEN Neg(amount) ELSE amount

(***************************************************************************)
(* findColumnIndex                                                         *)
(***************************************************************************)
\* headers.findIndex(h => h.includes(name)), 0-based, -1 when none.
FindIndex(headers, name) ==
  IF \E i \in 1..Len(headers) : Includes(headers[i], name)
  THEN (CHOOSE i \in 1..Len(headers) :
          /\ Includes(headers[i], name)
          /\ \A j \in 1..(i - 1) : ~Includes(headers[j], name)) - 1
  ELSE -1

RECURSIVE FindFrom(_, _, _)
FindFrom(headers, possibleNames, n) ==
  IF n > Len(possibleNames) THEN -1
  ELSE LET index == FindIndex(headers, possibleNames[n])
       IN IF index # -1 THEN index ELSE FindFrom(headers, possibleNames, n + 1)

\* findColumnIndex that returns the leftmost header containing any of the
\* names.
findColumnIndex_LeftmostAny(headers, possibleNames) ==
  LET matching == {i \in 1..Len(headers) :
                     \E n \in 1..Len(possibleNames) : Includes(headers[i], possibleNames[n])}
  IN IF matching = {} THEN -1 ELSE (CHOOSE i \in matching : \A j \in matching : i <= j) - 1

findColumnIndex(headers, possibleNames) == FindFrom(headers, possibleNames, 1)

DateNames == << <<"d", "a", "t", "a">>, <<"d", "a", "t", "e">>, <<"d", "t">> >>
AmountNames ==
  << <<"v", "a", "l", "o", "r">>, <<"a", "m", "o", "u", "n", "t">>,
     <<"v", "a", "l", "u", "e">>, <<"v", "l", "r">> >>
DonorNames ==
  << <<"d", "o", "a", "d", "o", "r">>, <<"d", "o", "n", "o", "r">>,
     <<"n", "o", "m", "e">>, <<"n", "a", "m", "e">> >>
DescriptionNames ==
  << <<"d", "e", "s", "c", "r", "i", "c", "a", "o">>,
     <<"d", "e", "s", "c", "r", "i", "p", "t", "i", "o", "n">>,
     <<"d", "e", "s", "c">>,
     <<"o", "b", "s", "e", "r", "v", "a", "c", "a", "o">> >>

(***************************************************************************)
(* The classifier and the aggregator.                                      *)
(***************************************************************************)
\* The name given to a donation whose cents have no mapping.
NaoMapeado == "Não mapeado"

\* An optional text: undefined is NoText.
SomeText(s) == [some |-> TRUE, s |-> s]
NoText == [some |-> FALSE, s |-> <<>>]

\* String(cell || '').trim() || undefined
OptionalText(cell) ==
  LET s == Trim(StringOrEmpty(cell))
  IN IF s = <<>> THEN NoText ELSE SomeText(s)

\* text || ''
TextOrEmpty(opt) == IF opt.some /\ opt.s # <<>> THEN opt.s ELSE <<>>

\* new Map(mappings.map(m => [m.cents, m.churchName])): one entry per cents
\* key, holding the name of the last array element with that key.
NewMap(mappingArray) ==
  [c \in {mappingArray[j].cents : j \in 1..Len(mappingArray)} |->
     LET last == CHOOSE j \in 1..Len(mappingArray) :
                   /\ mappingArray[j].cents = c
                   /\ \A h \in (j + 1)..Len(mappingArray) : mappingArray[h].cents # c
     IN mappingArray[last].churchName]

\* map.get(cents) || 'Não mapeado'
AssignedChurch(map, cents) ==
  IF cents \in DOMAIN map /\ map[cents] # "" THEN map[cents] ELSE NaoMapeado

\* Math.round(Math.abs(amount) * 100) % 100
CentsOf(amount) == Mod100(MathRound(Times100(MathAbs(amount))))

\* The duplicate-detection key of a donation with a valid date.
KeyOf(donation) ==
  ISODate(donation.date) \o <<"_">> \o NumberToText(donation.amount) \o <<"_">>
    \o TextOrEmpty(donation.donorName) \o <<"_">> \o TextOrEmpty(donation.description)

\* The record processDonations pushes for a donation, given the keys seen.
Processed(donation, map, seenKeys) ==
  LET cents == CentsOf(donation.amount)
  IN [date |-> donation.date, amount |-> donation.amount,
      donorName |-> donation.donorName, description |-> donation.description,
      cents |-> cents,
      assignedChurch |-> AssignedChurch(map, cents),
      isDuplicate |-> KeyOf(donation) \in seenKeys,
      isNegative |-> LessThanZero(donation.amount)]

\* MappedFilter that also drops the duplicates.
MappedFilter_DropsDuplicates(donations) ==
  SelectSeq(donations, LAMBDA d : d.assignedChurch # NaoMapeado /\ ~d.isDuplicate)

\* donations.filter(d => d.assignedChurch !== 'Não mapeado')
MappedFilter(donations) == SelectSeq(donations, LAMBDA d : d.assignedChurch # NaoMapeado)

\* donations.filter(d => d.assignedChurch === 'Não mapeado')
UnmappedFilter(donations) == SelectSeq(donations, LAMBDA d : d.assignedChurch = NaoMapeado)

\* The index of churchName among the entries of churchMap, 0 when absent.
EntryIndex(churchMap, churchName) ==
  IF \E j \in 1..Len(churchMap) : churchMap[j].churchName = churchName
  THEN CHOOSE j \in 1..Len(churchMap) : churchMap[j].churchName = churchName
  ELSE 0

\* Accumulate that adds the signed amount.
Accumulate_Signed(churchMap, donation) ==
  IF donation.assignedChurch = NaoMapeado THEN churchMap
  ELSE LET j == EntryIndex(churchMap, donation.assignedChurch)
           existing == IF j # 0 THEN churchMap[j]
                       ELSE [churchName |-> donation.assignedChurch, total |-> Fin(0),
                             count |-> 0, cents |-> donation.cents]
           updated == [existing EXCEPT !.total = Plus(@, donation.amount),
                                       !.count = @ + 1]
       IN IF j # 0 THEN [churchMap EXCEPT ![j] = updated] ELSE Append(churchMap, updated)

\* Accumulate that records the cents of the latest donation of the church.
Accumulate_LatestCents(churchMap, donation) ==
  IF donation.assignedChurch = NaoMapeado THEN churchMap
  ELSE LET j == EntryIndex(churchMap, donation.assignedChurch)
           existing == IF j # 0 THEN churchMap[j]
                       ELSE [churchName |-> donation.assignedChurch, total |-> Fin(0),
                             count |-> 0, cents |-> donation.cents]
           updated == [existing EXCEPT !.total = Plus(@, MathAbs(donation.amount)),
                                       !.count = @ + 1,
                                       !.cents = donation.cents]
       IN IF j # 0 THEN [churchMap EXCEPT ![j] = updated] ELSE Append(churchMap, updated)

\* One iteration of the loop of generateSummary: churchMap is the Map's
\* entries in insertion order.
Accumulate(churchMap, donation) ==
  IF donation.assignedChurch = NaoMapeado THEN churchMap
  ELSE LET j == EntryIndex(churchMap, donation.assignedChurch)
           existing == IF j # 0 THEN churchMap[j]
                       ELSE [churchName |-> donation.assignedChurch, total |-> Fin(0),
                             count |-> 0, cents |-> donation.cents]
           updated == [existing EXCEPT !.total = Plus(@, MathAbs(donation.amount)),
                                       !.count = @ + 1]
       IN IF j # 0 THEN [churchMap EXCEPT ![j] = updated] ELSE Append(churchMap, updated)

RECURSIVE ChurchMapOf(_)
\* The Map after the loop over all donations.
ChurchMapOf(donations) ==
  IF donations = <<>> THEN <<>>
  ELSE Accumulate(ChurchMapOf(SubSeq(donations, 1, Len(donations) - 1)), donations[Len(donations)])

\* The comparator (a, b) => a.total - b.total
ByTotalAsc(a, b) == CompareDesc(b.total, a.total)

\* The comparator (a, b) => b.total - a.total
ByTotalDesc(a, b) == CompareDesc(a.total, b.total)

\* x inserted into the sorted rows before the first row that must follow it.
InsertSorted(rows, x) ==
  LET after == {j \in 1..Len(rows) : ByTotalDesc(rows[j], x) > 0}
      pos == IF after = {} THEN Len(rows) + 1
             ELSE CHOOSE j \in after : \A h \in after : j <= h
  IN SubSeq(rows, 1, pos - 1) \o <<x>> \o SubSeq(rows, pos, Len(rows))

RECURSIVE SortRows(_)
\* Array.prototype.sort with the comparator: a stable sort.
SortRows(rows) ==
  IF rows = <<>> THEN <<>>
  ELSE InsertSorted(SortRows(SubSeq(rows, 1, Len(rows) - 1)), rows[Len(rows)])

generateSummary(donations) == SortRows(ChurchMapOf(donations))

\* generateStats that counts duplicates and negatives among the mapped
\* records only.
generateStats_MappedOnly(allDonations, unmapped) ==
  LET mapped == SelectSeq(allDonations, LAMBDA d : d.assignedChurch # NaoMapeado)
  IN [totalProcessed |-> Len(allDonations),
      duplicatesFound |-> Len(SelectSeq(mapped, LAMBDA d : d.isDuplicate)),
      negativeValuesFound |-> Len(SelectSeq(mapped, LAMBDA d : d.isNegative)),
      unmappedCount |-> Len(unmapped)]

generateStats(allDonations, unmapped) ==
  [totalProcessed |-> Len(allDonations),
   duplicatesFound |-> Len(SelectSeq(allDonations, LAMBDA d : d.isDuplicate)),
   negativeValuesFound |-> Len(SelectSeq(allDonations, LAMBDA d : d.isNegative)),
   unmappedCount |-> Len(unmapped)]

\* The message of the error thrown for missing columns, as readExcelFile
\* rejects with it.
MissingColumnsError ==
  "Erro ao processar arquivo Excel: Error: Colunas obrigatórias não encontradas. Certifique-se de que há colunas de data e valor."

\* The error of Date.prototype.toISOString on an Invalid Date.
InvalidTimeError == "RangeError: Invalid time value"

(***************************************************************************)
(* The inputs of the model: decoded grids and mapping arrays.              *)
(***************************************************************************)
T_a == <<"a">>
T_c == <<"c">>
T_a_b == <<"a", "_", "b">>
T_b_c == <<"b", "_", "c">>
T_abc == <<"a", "b", "c">>
T_Data == <<"D", "a", "t", "a">>
T_Valor == <<"V", "A", "L", "O", "R">>
T_Doador == <<"d", "o", "a", "d", "o", "r">>
T_Descricao == <<"D", "e", "s", "c", "r", "i", "c", "a", "o">>
T_Nome == <<"n", "o", "m", "e">>
T_id == <<"i", "d">>
T_05_01_2024 == <<"0", "5", "/", "0", "1", "/", "2", "0", "2", "4">>
T_2024_01_06 == <<"2", "0", "2", "4", "-", "0", "1", "-", "0", "6">>
T_R_1_234_56 == <<"R", "$", " ", "1", ".", "2", "3", "4", ",", "5", "6">>
T_paren_2_02 == <<"(", "2", ",", "0", "2", ")">>

\* Excel serial day numbers: 2024-01-05 and 2024-01-06.
Day1 == NumCell(Whole(45296))
Day2 == NumCell(Whole(45297))

\* Header rows.
FullHeader == <<TextCell(T_Data), TextCell(T_Valor), TextCell(T_Doador), TextCell(T_Descricao)>>
AmountFirstHeader == <<TextCell(T_Valor), TextCell(T_Data)>>
NoDateHeader == <<TextCell(T_Nome), TextCell(T_Valor)>>
NoAmountHeader == <<TextCell(T_Data), TextCell(T_Nome)>>
NeitherHeader == <<TextCell(T_id), TextCell(T_Nome)>>
EmptyHeader == <<>>

\* Mapping arrays (ChurchMapping[]).
Entry(cents, churchName) == [cents |-> Whole(cents), churchName |-> churchName]
DefaultMappings ==
  <<Entry(1, "Igreja Central"), Entry(2, "Igreja Patagônia"), Entry(3, "Igreja Ubis V")>>
SharedNameMappings ==
  <<Entry(1, "Igreja Central"), Entry(2, "Igreja Central"), Entry(13, "Igreja Ubis V")>>
SentinelNameMappings == <<Entry(1, NaoMapeado), Entry(2, "Igreja Patagônia")>>

\* Rows that differ in the amount cell only.
AmountRows ==
  { <<Day1, amount>> : amount \in
      { NumCell(Fin(1010)), NumCell(Fin(2020)), NumCell(Fin(-1010)),
        NumCell(Fin(3500)), NumCell(Fin(125)), TextCell(T_Infinity) } }

\* Rows that differ in date, sign, donor or description.
DonorRows ==
  { <<Day1, NumCell(Fin(5010)), TextCell(T_a), TextCell(T_b_c)>>,
    <<Day1, NumCell(Fin(5010)), TextCell(T_a_b), TextCell(T_c)>>,
    <<Day1, NumCell(Fin(5010)), TextCell(T_a), Absent>>,
    <<Day2, NumCell(Fin(5010)), TextCell(T_a), TextCell(T_b_c)>>,
    <<Day1, NumCell(Fin(-5010)), TextCell(T_a), TextCell(T_b_c)>> }

\* Rows with cells of every kind in the date and amount columns.
CellRows ==
  { <<Day1, TextCell(T_R_1_234_56)>>,
    <<TextCell(T_05_01_2024), TextCell(T_paren_2_02)>>,
    <<TextCell(T_2024_01_06), NumCell(Fin(1010))>>,
    <<TextCell(T_abc), NumCell(Fin(1010))>>,
    <<Day1, TextCell(T_abc)>>,
    <<NumCell(PosInf), NumCell(Fin(1010))>>,
    <<NumCell(Whole(0)), NumCell(Fin(1010))>>,
    <<Absent, NumCell(Fin(2020))>>,
    <<>> }

\* Rows for the grids whose header is not the full one: amount, then date.
ShortRows == { <<NumCell(Fin(1010)), Day1>>, <<NumCell(Fin(2020)), Day2>> }

\* The families of inputs: a header row, the rows the data rows are drawn
\* from, and the mapping arrays the processor is constructed with.
Families ==
  { [header |-> FullHeader, rows |-> AmountRows,
     mappings |-> {DefaultMappings, SharedNameMappings, SentinelNameMappings}],
    [header |-> FullHeader, rows |-> DonorRows, mappings |-> {DefaultMappings}],
    [header |-> FullHeader, rows |-> CellRows, mappings |-> {DefaultMappings}],
    [header |-> AmountFirstHeader, rows |-> ShortRows, mappings |-> {DefaultMappings}],
    [header |-> NoDateHeader, rows |-> ShortRows, mappings |-> {DefaultMappings}],
    [header |-> NoAmountHeader, rows |-> ShortRows, mappings |-> {DefaultMappings}],
    [header |-> NeitherHeader, rows |-> ShortRows, mappings |-> {DefaultMappings}],
    [header |-> EmptyHeader, rows |-> ShortRows, mappings |-> {DefaultMappings}] }

\* The sequences over S of length at most n.
SeqsUpTo(S, n) == UNION {[1..m -> S] : m \in 0..n}

(***************************************************************************)
(* The state of the parts of the program that are modelled by their own    *)
(* specifications below; each specification leaves the others' state idle. *)
(***************************************************************************)
VARIABLES
  call,      \* <<>> or <<the pending call of findColumnIndex or parseDate>>
  returned   \* <<>> or <<the value the call returned>>

callVars == <<call, returned>>

CallIdle == call = <<>> /\ returned = <<>>

VARIABLES
  mappingList,    \* the mappings state of Index (ChurchMapping[])
  newCents,       \* the text of the cents input of ChurchMappingConfig
  newChurchName   \* the text of the church-name input of ChurchMappingConfig

configVars == <<mappingList, newCents, newChurchName>>

ConfigIdle == mappingList = <<>> /\ newCents = <<>> /\ newChurchName = <<>>

VARIABLES
  selectedFile,        \* the selectedFile state of Index: "" is null
  uploadSelectedFile,  \* the selectedFile state of FileUpload: "" is null
  isProcessing,        \* the isProcessing state of Index
  processingProgress,  \* the processingProgress state of Index
  results,             \* the results state of Index: <<>> is null
  running,             \* <<>> or <<the call of processFile that is awaiting>>
  intervals,           \* the number of interval timers that are set
  clicks               \* the number of clicks on Process that started a run

pageVars ==
  <<selectedFile, uploadSelectedFile, isProcessing, processingProgress, results,
    running, intervals, clicks>>

PageIdle ==
  /\ selectedFile = "" /\ uploadSelectedFile = ""
  /\ isProcessing = FALSE /\ processingProgress = 0
  /\ results = <<>> /\ running = <<>> /\ intervals = 0 /\ clicks = 0

(***************************************************************************)
(* The state of one run of processExcelFile.                               *)
(***************************************************************************)
VARIABLES
  data,                \* the decoded grid: data[1] is the header row
  mappings,            \* this.mappings, the Map of the processor
  pc,                  \* the step the run is at
  dateIndex, amountIndex, donorIndex, descriptionIndex,
  i,                   \* the row index of the loop of parseExcelData
  donations,           \* the RawDonation[] of parseExcelData
  seen,                \* the Set of keys of processDonations
  processedDonations,  \* the ProcessedDonation[] of processDonations
  mappedDonations, unmappedDonations,
  summary,             \* the ChurchSummary[]
  stats,               \* <<>> or <<the ProcessingStats>>
  result,              \* <<>> or <<the value the promise resolved with>>
  error,               \* "" or the message the promise rejected with
  previous             \* <<>> or <<the outcome of the previous call on this instance>>

runVars ==
  <<data, mappings, pc, dateIndex, amountIndex, donorIndex, descriptionIndex, i,
    donations, seen, processedDonations, mappedDonations, unmappedDonations,
    summary, stats, result, error, previous>>

vars == <<runVars, callVars, configVars, pageVars>>

\* The state of the processor when no specification runs it.
RunIdle ==
  /\ data = <<>> /\ mappings = <<>> /\ pc = "idle"
  /\ dateIndex = -1 /\ amountIndex = -1 /\ donorIndex = -1 /\ descriptionIndex = -1
  /\ i = 0 /\ donations = <<>> /\ seen = {} /\ processedDonations = <<>>
  /\ mappedDonations = <<>> /\ unmappedDonations = <<>>
  /\ summary = <<>> /\ stats = <<>> /\ result = <<>> /\ error = "" /\ previous = <<>>

Init ==
  /\ \E f \in Families :
       /\ \/ data \in {<<f.header>> \o rows : rows \in SeqsUpTo(f.rows, MaxRows)}
          \/ data = <<>>
       /\ \E mappingArray \in f.mappings : mappings = NewMap(mappingArray)
  /\ pc = "parseExcelData"
  /\ dateIndex = -1 /\ amountIndex = -1 /\ donorIndex = -1 /\ descriptionIndex = -1
  /\ i = 0
  /\ donations = <<>>
  /\ seen = {}
  /\ processedDonations = <<>>
  /\ mappedDonations = <<>> /\ unmappedDonations = <<>>
  /\ summary = <<>>
  /\ stats = <<>>
  /\ result = <<>>
  /\ error = ""
  /\ previous = <<>>
  /\ CallIdle /\ ConfigIdle /\ PageIdle

\* data[0].map(h => String(h).toLowerCase())
HeadersOf(grid) == [j \in 1..Len(grid[1]) |-> ToLowerCase(StringOf(grid[1][j]))]

\* MissingRequired with && in place of ||.
MissingRequired_Both(di, ai) == di = -1 /\ ai = -1

\* dateIndex === -1 || amountIndex === -1
MissingRequired(di, ai) == di = -1 \/ ai = -1

\* ColumnsError with a message for each missing column.
ColumnsError_Named(di, ai) ==
  IF di = -1 /\ ai = -1 THEN "Colunas de data e valor não encontradas."
  ELSE IF di = -1 THEN "Coluna de data não encontrada."
  ELSE "Coluna de valor não encontrada."

\* The message the promise rejects with when parseExcelData throws for the
\* column indices di and ai.
ColumnsError(di, ai) == MissingColumnsError

\* The rejection of a run on a grid with this header row, "" when the
\* required columns are found.
HeaderError(grid) ==
  LET headers == HeadersOf(grid)
      di == findColumnIndex(headers, DateNames)
      ai == findColumnIndex(headers, AmountNames)
  IN IF MissingRequired(di, ai) THEN ColumnsError(di, ai) ELSE ""

\* parseExcelData up to the loop: the empty grid, the column indices and
\* the error for a missing date or amount column.
ParseHeader ==
  /\ pc = "parseExcelData"
  /\ IF data = <<>>
     THEN /\ pc' = "processDonations"
          /\ UNCHANGED <<dateIndex, amountIndex, donorIndex, descriptionIndex, i, error>>
     ELSE LET headers == HeadersOf(data)
          IN /\ dateIndex' = findColumnIndex(headers, DateNames)
             /\ amountIndex' = findColumnIndex(headers, AmountNames)
             /\ donorIndex' = findColumnIndex(headers, DonorNames)
             /\ descriptionIndex' = findColumnIndex(headers, DescriptionNames)
             /\ error' = HeaderError(data)
             /\ IF HeaderError(data) # ""
                THEN pc' = "rejected" /\ i' = i
                ELSE pc' = "rows" /\ i' = 1
  /\ UNCHANGED <<previous, callVars, configVars, pageVars>>
  /\ UNCHANGED <<data, mappings, donations, seen, processedDonations,
                 mappedDonations, unmappedDonations, summary, stats, result>>

\* The donation parseExcelData pushes for a row, <<>> when it pushes none.
ParsedRow(row, di, ai, ni, si) ==
  IF row = <<>> THEN <<>>
  ELSE LET date == parseDate(CellAt(row, di))
           amount == parseAmount(CellAt(row, ai))
       IN IF date.some /\ ~IsNaN(amount)
          THEN << [date |-> date, amount |-> amount,
                   donorName |-> IF ni # -1 THEN OptionalText(CellAt(row, ni)) ELSE NoText,
                   description |-> IF si # -1 THEN OptionalText(CellAt(row, si)) ELSE NoText] >>
          ELSE <<>>

\* One iteration of the loop of parseExcelData, or its end.
ParseRow ==
  /\ pc = "rows"
  /\ IF i < Len(data)
     THEN /\ donations' = donations \o ParsedRow(data[i + 1], dateIndex, amountIndex, donorIndex, descriptionIndex)
          /\ i' = i + 1
          /\ pc' = pc
     ELSE /\ pc' = "processDonations"
          /\ UNCHANGED <<donations, i>>
  /\ UNCHANGED <<previous, callVars, configVars, pageVars>>
  /\ UNCHANGED <<data, mappings, dateIndex, amountIndex, donorIndex, descriptionIndex,
                 seen, processedDonations, mappedDonations, unmappedDonations,
                 summary, stats, result, error>>

\* One iteration of the loop of processDonations, or its end.  toISOString
\* throws a RangeError on an Invalid Date; nothing catches it, so the
\* promise of processExcelFile rejects.
ProcessDonation ==
  /\ pc = "processDonations"
  /\ IF Len(processedDonations) < Len(donations)
     THEN LET donation == donations[Len(processedDonations) + 1]
          IN IF IsInvalidDate(donation.date)
             THEN /\ pc' = "rejected"
                  /\ error' = InvalidTimeError
                  /\ UNCHANGED <<seen, processedDonations>>
             ELSE /\ processedDonations' = Append(processedDonations, Processed(donation, mappings, seen))
                  /\ seen' = seen \cup {KeyOf(donation)}
                  /\ UNCHANGED <<pc, error>>
     ELSE /\ pc' = "separateByMapping"
          /\ UNCHANGED <<seen, processedDonations, error>>
  /\ UNCHANGED <<previous, callVars, configVars, pageVars>>
  /\ UNCHANGED <<data, mappings, dateIndex, amountIndex, donorIndex, descriptionIndex, i,
                 donations, mappedDonations, unmappedDonations, summary, stats, result>>

separateByMapping ==
  /\ pc = "separateByMapping"
  /\ mappedDonations' = MappedFilter(processedDonations)
  /\ unmappedDonations' = UnmappedFilter(processedDonations)
  /\ pc' = "generateSummary"
  /\ UNCHANGED <<previous, callVars, configVars, pageVars>>
  /\ UNCHANGED <<data, mappings, dateIndex, amountIndex, donorIndex, descriptionIndex, i,
                 donations, seen, processedDonations, summary, stats, result, error>>

GenerateSummary ==
  /\ pc = "generateSummary"
  /\ summary' = generateSummary(mappedDonations)
  /\ pc' = "generateStats"
  /\ UNCHANGED <<previous, callVars, configVars, pageVars>>
  /\ UNCHANGED <<data, mappings, dateIndex, amountIndex, donorIndex, descriptionIndex, i,
                 donations, seen, processedDonations, mappedDonations, unmappedDonations,
                 stats, result, error>>

GenerateStats ==
  /\ pc = "generateStats"
  /\ stats' = <<generateStats(processedDonations, unmappedDonations)>>
  /\ pc' = "return"
  /\ UNCHANGED <<previous, callVars, configVars, pageVars>>
  /\ UNCHANGED <<data, mappings, dateIndex, amountIndex, donorIndex, descriptionIndex, i,
                 donations, seen, processedDonations, mappedDonations, unmappedDonations,
                 summary, result, error>>

\* The return of processExcelFile.
Return ==
  /\ pc = "return"
  /\ result' = << [donations |-> mappedDonations, summary |-> summary,
                   unmappedDonations |-> unmappedDonations, stats |-> stats[1]] >>
  /\ pc' = "resolved"
  /\ UNCHANGED <<previous, callVars, configVars, pageVars>>
  /\ UNCHANGED <<data, mappings, dateIndex, amountIndex, donorIndex, descriptionIndex, i,
                 donations, seen, processedDonations, mappedDonations, unmappedDonations,
                 summary, stats, error>>

\* NewSeen for a Set kept in a field of the processor.
NewSeen_Kept(earlier) == earlier

\* const seen = new Set<string>(): the Set of a call of processDonations,
\* whatever the Set of an earlier call held.
NewSeen(earlier) == {}

\* A further call of processExcelFile with the same file on the same
\* processor, once the first call has settled: the locals of the new call
\* are fresh, this.mappings is the state that stays.
CallAgain ==
  /\ pc \in {"resolved", "rejected"}
  /\ previous = <<>>
  /\ previous' = << [result |-> result, error |-> error] >>
  /\ pc' = "parseExcelData"
  /\ dateIndex' = -1 /\ amountIndex' = -1 /\ donorIndex' = -1 /\ descriptionIndex' = -1
  /\ i' = 0
  /\ donations' = <<>>
  /\ seen' = NewSeen(seen)
  /\ processedDonations' = <<>>
  /\ mappedDonations' = <<>> /\ unmappedDonations' = <<>>
  /\ summary' = <<>>
  /\ stats' = <<>>
  /\ result' = <<>>
  /\ error' = ""
  /\ UNCHANGED <<data, mappings, callVars, configVars, pageVars>>

Next ==
  \/ ParseHeader
  \/ ParseRow
  \/ ProcessDonation
  \/ separateByMapping
  \/ GenerateSummary
  \/ GenerateStats
  \/ Return
  \/ CallAgain

Spec == Init /\ [][Next]_vars

(***************************************************************************)
(* ChurchMappingConfig: the editor of the mappings state of Index.  The    *)
(* entries Index starts with carry their names as written in the source;   *)
(* typed and imported names are texts.                                     *)
(***************************************************************************)
\* parseInt(text): leading white space, an optional sign, then the longest
\* prefix of digits; NaN when there is no digit.
ParseInt(s0) ==
  LET s1 == TrimStart(s0)
      signed == s1 # <<>> /\ s1[1] \in {"+", "-"}
      sign == IF signed /\ s1[1] = "-" THEN -1 ELSE 1
      s == IF signed THEN Tail(s1) ELSE s1
      n == DigitPrefixLen(s)
  IN IF n = 0 THEN NaN ELSE Whole(sign * DigitsToNat(SubSeq(s, 1, n)))

\* isNaN(cents) || cents < 0 || cents > 99
CentsRejected(cents) == IsNaN(cents) \/ LessThanZero(cents) \/ cents.v > 99 * Scale

\* list.sort((a, b) => a.cents - b.cents): the sort is stable.
InsertByCents(list, x) ==
  LET after == {j \in 1..Len(list) : list[j].cents.v > x.cents.v}
      pos == IF after = {} THEN Len(list) + 1
             ELSE CHOOSE j \in after : \A h \in after : j <= h
  IN SubSeq(list, 1, pos - 1) \o <<x>> \o SubSeq(list, pos, Len(list))

RECURSIVE SortByCents(_)
SortByCents(list) ==
  IF list = <<>> THEN <<>>
  ELSE InsertByCents(SortByCents(SubSeq(list, 1, Len(list) - 1)), list[Len(list)])

\* Texts for the cents input.
T_1 == <<"1">>
T_04 == <<"0", "4">>
T_4_5 == <<"4", ".", "5">>
T_99 == <<"9", "9">>
T_100 == <<"1", "0", "0">>
T_minus_1 == <<"-", "1">>
CentsTexts == {<<>>, T_1, T_04, T_4_5, T_99, T_100, T_minus_1}

\* Texts for the church-name input.
T_A == <<"A">>
T_sp == <<" ">>
T_sp_B_sp == <<" ", "B", " ">>
NameTexts == {<<>>, T_sp, T_A, T_sp_B_sp}

\* onChange of the cents input
setNewCents ==
  /\ pc = "idle"
  /\ \E text \in CentsTexts : newCents' = text
  /\ UNCHANGED <<mappingList, newChurchName, runVars, callVars, pageVars>>

\* onChange of the church-name input
setNewChurchName ==
  /\ pc = "idle"
  /\ \E text \in NameTexts : newChurchName' = text
  /\ UNCHANGED <<mappingList, newCents, runVars, callVars, pageVars>>

\* The list addMapping hands to onMappingsChange, or the list as it is when
\* addMapping returns early.
AddedTo(list, centsText, nameText) ==
  LET cents == ParseInt(centsText)
  IN IF CentsRejected(cents) THEN list
     ELSE IF Trim(nameText) = <<>> THEN list
     ELSE IF \E j \in 1..Len(list) : list[j].cents = cents THEN list
     ELSE SortByCents(list \o << [cents |-> cents, churchName |-> Trim(nameText)] >>)

\* The click on the add button.  The inputs are cleared only when the entry
\* was added.
addMapping ==
  /\ pc = "idle"
  /\ mappingList' = AddedTo(mappingList, newCents, newChurchName)
  /\ IF mappingList' # mappingList
     THEN newCents' = <<>> /\ newChurchName' = <<>>
     ELSE UNCHANGED <<newCents, newChurchName>>
  /\ UNCHANGED <<runVars, callVars, pageVars>>

\* The click on the remove button of an entry.
removeMapping ==
  /\ pc = "idle"
  /\ \E j \in 1..Len(mappingList) :
       mappingList' = SelectSeq(mappingList, LAMBDA m : m.cents # mappingList[j].cents)
  /\ UNCHANGED <<newCents, newChurchName, runVars, callVars, pageVars>>

\* The entries a line of the CSV gives: one or none.
ImportedLine(line) ==
  LET parts == Split(line, ",")
      cents == ParseInt(Trim(parts[1]))
  IN IF ~CentsRejected(cents) /\ Len(parts) >= 2 /\ Trim(parts[2]) # <<>>
     THEN << [cents |-> cents, churchName |-> Trim(parts[2])] >>
     ELSE <<>>

RECURSIVE ImportedLines(_)
ImportedLines(lines) ==
  IF lines = <<>> THEN <<>> ELSE ImportedLine(lines[1]) \o ImportedLines(Tail(lines))

T_cents == <<"c", "e", "n", "t", "s">>

\* The list importMappings hands to onMappingsChange.  lines[0] of a file
\* without a non-blank line is undefined: the TypeError is caught and the
\* list stays.
Imported(list, csv) ==
  LET lines == SelectSeq(Split(csv, "\n"), LAMBDA line : Trim(line) # <<>>)
  IN IF lines = <<>> THEN list
     ELSE LET startIndex == IF Includes(ToLowerCase(lines[1]), T_cents) THEN 1 ELSE 0
          IN SortByCents(ImportedLines(SubSeq(lines, startIndex + 1, Len(lines))))

\* CSV files: an export of two entries, a file with the same cents twice, a
\* file with lines that are skipped, a file without a second column in its
\* only line, and the empty file.
Csv_Exported ==
  <<"c", "e", "n", "t", "s", ",", "c", "h", "u", "r", "c", "h", "_", "n", "a", "m", "e", "\n",
    "0", "5", ",", "A", "\n", "0", "2", ",", "B">>
Csv_SameCentsTwice == <<"0", "1", ",", "A", "\n", "0", "1", ",", "B">>
Csv_SkippedLines ==
  <<"7", ",", " ", "C", " ", ",", "x", "\n", "\n", "1", "0", "0", ",", "B", "\n",
    "x", ",", "C", "\n", "5", "\n", "3", ",", " ">>
Csv_NoEntries == <<"5">>
Csv_Empty == <<>>
CsvFiles == {Csv_Exported, Csv_SameCentsTwice, Csv_SkippedLines, Csv_NoEntries, Csv_Empty}

\* reader.onload of importMappings
importMappings ==
  /\ pc = "idle"
  /\ \E csv \in CsvFiles : mappingList' = Imported(mappingList, csv)
  /\ UNCHANGED <<newCents, newChurchName, runVars, callVars, pageVars>>

\* Index starts with three entries and ChurchMappingConfig with empty inputs.
ConfigInit ==
  /\ mappingList = DefaultMappings
  /\ newCents = <<>>
  /\ newChurchName = <<>>
  /\ RunIdle /\ CallIdle /\ PageIdle

ConfigNext ==
  \/ setNewCents
  \/ setNewChurchName
  \/ addMapping
  \/ removeMapping
  \/ importMappings

SpecConfig == ConfigInit /\ [][ConfigNext]_vars

(***************************************************************************)
(* Single calls of findColumnIndex and parseDate on arguments drawn from   *)
(* the sets below.                                                         *)
(***************************************************************************)
\* The longest header row of a call of findColumnIndex.
MaxHeaders == 3

\* Lower-case header texts: "update" contains "date" and "datas" contains
\* "data"; "id" contains no name.
T_data == <<"d", "a", "t", "a">>
T_dt == <<"d", "t">>
T_update == <<"u", "p", "d", "a", "t", "e">>
T_datas == <<"d", "a", "t", "a", "s">>
T_valor == <<"v", "a", "l", "o", "r">>
HeaderTexts == {T_data, T_dt, T_update, T_datas, T_valor, T_id}

NameLists == {DateNames, AmountNames, DonorNames}

FindColumnIndexCalls ==
  { [fn |-> "findColumnIndex", headers |-> headers, possibleNames |-> names] :
      headers \in SeqsUpTo(HeaderTexts, MaxHeaders), names \in NameLists }

\* Cells handed to parseDate: numbers of every kind, texts, and no cell.
DateCells ==
  { NumCell(Whole(0)), NumCell(Whole(1)), NumCell(Whole(-1)), NumCell(Whole(25569)),
    NumCell(Whole(45296)), NumCell(Fin(45296500)), NumCell(PosInf), NumCell(NegInf),
    NumCell(NaN), TextCell(T_05_01_2024), TextCell(T_2024_01_06), TextCell(T_abc),
    TextCell(<<>>), Absent }

ParseDateCalls == { [fn |-> "parseDate", value |-> value] : value \in DateCells }

CallInit ==
  /\ call \in { <<c>> : c \in FindColumnIndexCalls \cup ParseDateCalls }
  /\ returned = <<>>
  /\ RunIdle /\ ConfigIdle /\ PageIdle

CallFindColumnIndex ==
  /\ call # <<>> /\ returned = <<>>
  /\ call[1].fn = "findColumnIndex"
  /\ returned' = << findColumnIndex(call[1].headers, call[1].possibleNames) >>
  /\ UNCHANGED <<call, runVars, configVars, pageVars>>

CallParseDate ==
  /\ call # <<>> /\ returned = <<>>
  /\ call[1].fn = "parseDate"
  /\ returned' = << parseDate(call[1].value) >>
  /\ UNCHANGED <<call, runVars, configVars, pageVars>>

CallNext ==
  \/ CallFindColumnIndex
  \/ CallParseDate

SpecCall == CallInit /\ [][CallNext]_vars

(***************************************************************************)
(* The Index page with its FileUpload: file selection and removal, the     *)
(* Process button, the progress timer, and the completion of               *)
(* processExcelFile.  A result is known by the file it was computed from.  *)
(***************************************************************************)
\* The most clicks on Process that start a run.
MaxClicks == 2

\* Files the user can pick.  processExcelFile resolves for the first two and
\* rejects for the third, a sheet without a date column.
Files == {"a.xlsx", "b.xlsx", "semData.xlsx"}
Rejects(file) == file = "semData.xlsx"

\* handleFileSelect of Index, the onFileSelect of FileUpload
onFileSelect(file) ==
  /\ selectedFile' = file
  /\ results' = <<>>

\* A file dropped on the drop zone, which is rendered while FileUpload has
\* no file.
handleDrop ==
  /\ uploadSelectedFile = ""
  /\ \E file \in Files :
       /\ uploadSelectedFile' = file
       /\ onFileSelect(file)
  /\ UNCHANGED <<isProcessing, processingProgress, running, intervals, clicks>>
  /\ UNCHANGED <<runVars, callVars, configVars>>

\* A file chosen in the file input, which is rendered while FileUpload has
\* no file.
handleFileSelect ==
  /\ uploadSelectedFile = ""
  /\ \E file \in Files :
       /\ uploadSelectedFile' = file
       /\ onFileSelect(file)
  /\ UNCHANGED <<isProcessing, processingProgress, running, intervals, clicks>>
  /\ UNCHANGED <<runVars, callVars, configVars>>

\* The remove button of the file card of FileUpload.
removeFile ==
  /\ uploadSelectedFile # ""
  /\ uploadSelectedFile' = ""
  /\ UNCHANGED <<selectedFile, isProcessing, processingProgress, results, running,
                 intervals, clicks>>
  /\ UNCHANGED <<runVars, callVars, configVars>>

\* The click on Process, up to the await.  The button is rendered while
\* Index has a file and is disabled while isProcessing.
processFile ==
  /\ selectedFile # ""
  /\ ~isProcessing
  /\ IF mappingList = <<>>
     THEN UNCHANGED <<isProcessing, processingProgress, running, intervals, clicks>>
     ELSE /\ clicks < MaxClicks
          /\ clicks' = clicks + 1
          /\ isProcessing' = TRUE
          /\ processingProgress' = 0
          /\ intervals' = intervals + 1
          /\ running' = << [file |-> selectedFile] >>
  /\ UNCHANGED <<selectedFile, uploadSelectedFile, results>>
  /\ UNCHANGED <<runVars, callVars, configVars>>

\* The callback of a progress timer that is set.
progressTick ==
  /\ intervals > 0
  /\ processingProgress' = IF processingProgress + 10 < 90 THEN processingProgress + 10 ELSE 90
  /\ UNCHANGED <<selectedFile, uploadSelectedFile, isProcessing, results, running,
                 intervals, clicks>>
  /\ UNCHANGED <<runVars, callVars, configVars>>

\* processExcelFile resolved: the rest of the try block, then finally.
processFileResolved ==
  /\ running # <<>>
  /\ ~Rejects(running[1].file)
  /\ intervals' = intervals - 1
  /\ results' = << [file |-> running[1].file] >>
  /\ isProcessing' = FALSE
  /\ processingProgress' = 0
  /\ running' = <<>>
  /\ UNCHANGED <<selectedFile, uploadSelectedFile, clicks>>
  /\ UNCHANGED <<runVars, callVars, configVars>>

\* processExcelFile rejected: catch, then finally.  clearInterval is in the
\* try block after the await and is not reached.
processFileRejected ==
  /\ running # <<>>
  /\ Rejects(running[1].file)
  /\ isProcessing' = FALSE
  /\ processingProgress' = 0
  /\ running' = <<>>
  /\ UNCHANGED <<selectedFile, uploadSelectedFile, results, intervals, clicks>>
  /\ UNCHANGED <<runVars, callVars, configVars>>

PageInit ==
  /\ PageIdle
  /\ mappingList = DefaultMappings
  /\ newCents = <<>>
  /\ newChurchName = <<>>
  /\ RunIdle /\ CallIdle

PageNext ==
  \/ handleDrop
  \/ handleFileSelect
  \/ removeFile
  \/ removeMapping
  \/ processFile
  \/ progressTick
  \/ processFileResolved
  \/ processFileRejected

SpecPage == PageInit /\ [][PageNext]_vars

(***************************************************************************)
(* ProcessingResults: the Centavos cell of the table of unmapped           *)
(* donations.                                                              *)
(***************************************************************************)
\* Math.floor
MathFloor(x) == IF x.k = "fin" THEN Fin((x.v \div Scale) * Scale) ELSE x

\* Math.floor((donation.amount * 100) % 100).toString().padStart(2, '0')
CentavosCell(donation) ==
  PadStart(NumberToText(MathFloor(Mod100(Times100(donation.amount)))), 2)

(***************************************************************************)
(* Properties.                                                             *)
(***************************************************************************)
\* The value of a finite number as an integer count of thousandths.
AbsV(x) == IF x.v < 0 THEN -x.v ELSE x.v

\* Two records agree on date, signed amount, donor and description.
SameFour(a, b) ==
  /\ a.date = b.date
  /\ a.amount = b.amount
  /\ a.donorName = b.donorName
  /\ a.description = b.description

\* No record before position j agrees with record j on the four fields.
FirstOccurrence(j) == \A h \in 1..(j - 1) : ~SameFour(processedDonations[h], processedDonations[j])

\* C1: every record processDonations emits has cents an integer with
\* 0 <= cents <= 99, equal to round(|amount| * 100) mod 100.
C1_CentsInRange ==
  \A j \in 1..Len(processedDonations) :
    LET d == processedDonations[j]
    IN /\ d.cents.k = "fin"
       /\ d.cents.v % Scale = 0
       /\ d.cents.v \div Scale \in 0..99
       /\ d.amount.k = "fin" =>
            d.cents.v \div Scale = ((AbsV(d.amount) * 100 + 500) \div 1000) % 100

\* C2: of two records with identical date, signed amount, donor and
\* description, the first in row order is not flagged isDuplicate and every
\* later one is.
C2_FirstUnflaggedLaterFlagged ==
  \A a \in 1..Len(processedDonations) : \A b \in (a + 1)..Len(processedDonations) :
    SameFour(processedDonations[a], processedDonations[b]) =>
      /\ processedDonations[b].isDuplicate
      /\ FirstOccurrence(a) => ~processedDonations[a].isDuplicate

\* C3: a record is flagged isDuplicate only if an earlier record of the run
\* has the identical date, signed amount, donor and description.
C3_FlaggedOnlyIfIdenticalEarlier ==
  \A j \in 1..Len(processedDonations) :
    processedDonations[j].isDuplicate => ~FirstOccurrence(j)

\* The header row holds a cell that contains one of the names.
HeaderHas(grid, names) ==
  \E j \in 1..Len(grid[1]) : \E n \in 1..Len(names) :
    Includes(ToLowerCase(StringOf(grid[1][j])), names[n])

\* C4: when the header row yields a date column and an amount column, the
\* run is never rejected, whatever the cells of the data rows hold.
C4_NoAbortOnBadCells ==
  (data # <<>> /\ HeaderHas(data, DateNames) /\ HeaderHas(data, AmountNames)) => pc # "rejected"

\* C5: when the header row has no date-like or no amount-like column, the
\* run is rejected with the missing-columns error before any row is parsed,
\* and nothing is returned.
C5_MissingColumnFailsFast ==
  (data # <<>> /\ pc # "parseExcelData"
     /\ (~HeaderHas(data, DateNames) \/ ~HeaderHas(data, AmountNames))) =>
    /\ pc = "rejected"
    /\ error = MissingColumnsError
    /\ i = 0
    /\ donations = <<>> /\ processedDonations = <<>>
    /\ mappedDonations = <<>> /\ unmappedDonations = <<>>
    /\ summary = <<>> /\ stats = <<>> /\ result = <<>>

\* A run rejected for a missing column, with data rows left unparsed.
C5_Witness ==
  /\ pc = "rejected" /\ error = MissingColumnsError
  /\ Len(data) > 1
  /\ HeaderHas(data, DateNames) /\ ~HeaderHas(data, AmountNames)

\* Which required column categories a header row lacks.
MissingCategories(grid) == <<~HeaderHas(grid, DateNames), ~HeaderHas(grid, AmountNames)>>

\* The grids of the model that consist of a header row only.
HeaderGrids == {<<f.header>> : f \in Families}

\* C6 as stated: the error of a run rejected for a missing column differs
\* from the error of every header that lacks other column categories.
C6_ErrorNamesMissingColumn ==
  (pc = "rejected" /\ error = HeaderError(data)) =>
    \A g \in HeaderGrids :
      (HeaderError(g) # "" /\ MissingCategories(g) # MissingCategories(data)) =>
        HeaderError(g) # error

\* C6 as amended: a run rejected for a missing column carries the same
\* error as every other header that lacks a required column, whichever
\* categories are missing.
C6_OneErrorForAnyMissingColumn ==
  (data # <<>> /\ pc # "parseExcelData"
     /\ (~HeaderHas(data, DateNames) \/ ~HeaderHas(data, AmountNames))) =>
    \A g \in HeaderGrids :
      (~HeaderHas(g, DateNames) \/ ~HeaderHas(g, AmountNames)) =>
        HeaderError(g) # "" /\ HeaderError(g) = error

\* A run rejected for a header that lacks the date column only, while the
\* model holds a header that lacks the amount column only.
C6_Witness ==
  /\ pc = "rejected"
  /\ MissingCategories(data) = <<TRUE, FALSE>>
  /\ \E g \in HeaderGrids : MissingCategories(g) = <<FALSE, TRUE>>

RECURSIVE IsInterleaving(_, _, _)
\* s is a and b interleaved: each element of s is taken from the front of
\* exactly one of a and b, which are used up.
IsInterleaving(s, a, b) ==
  IF s = <<>> THEN a = <<>> /\ b = <<>>
  ELSE \/ a # <<>> /\ a[1] = s[1] /\ IsInterleaving(Tail(s), Tail(a), b)
       \/ b # <<>> /\ b[1] = s[1] /\ IsInterleaving(Tail(s), a, Tail(b))

\* C7: in every result the classified records are split between donations
\* and unmappedDonations, each keeping the records' order, and the two
\* lengths add up to stats.totalProcessed, the number of classified records.
C7_Partition ==
  result # <<>> =>
    LET r == result[1]
    IN /\ IsInterleaving(processedDonations, r.donations, r.unmappedDonations)
       /\ \A j \in 1..Len(r.donations) : r.donations[j].assignedChurch # NaoMapeado
       /\ \A j \in 1..Len(r.unmappedDonations) : r.unmappedDonations[j].assignedChurch = NaoMapeado
       /\ Len(r.donations) + Len(r.unmappedDonations) = r.stats.totalProcessed
       /\ r.stats.totalProcessed = Len(processedDonations)

\* A result with records in both partitions, a mapped record following an
\* unmapped one.
C7_Witness ==
  /\ result # <<>>
  /\ Len(result[1].donations) >= 2
  /\ Len(result[1].unmappedDonations) >= 1
  /\ processedDonations[1].assignedChurch = NaoMapeado

RECURSIVE SumAbs(_)
\* The sum of |amount|, in thousandths, over records with finite amounts.
SumAbs(records) == IF records = <<>> THEN 0 ELSE AbsV(records[1].amount) + SumAbs(Tail(records))

RECURSIVE SumTotals(_)
SumTotals(rows) == IF rows = <<>> THEN 0 ELSE rows[1].total.v + SumTotals(Tail(rows))

\* The mapped records assigned to a church.
MembersOf(records, churchName) == SelectSeq(records, LAMBDA d : d.assignedChurch = churchName)

FirstAppearance(records, churchName) ==
  CHOOSE j \in 1..Len(records) :
    /\ records[j].assignedChurch = churchName
    /\ \A h \in 1..(j - 1) : records[h].assignedChurch # churchName

\* C9: the summary rows are in non-increasing order of total, and rows with
\* equal totals are in the order in which their churches first appear among
\* the mapped records.
C9_SortedStable ==
  result # <<>> =>
    LET r == result[1]
    IN \A a \in 1..Len(r.summary) : \A b \in (a + 1)..Len(r.summary) :
         /\ r.summary[a].total.v >= r.summary[b].total.v
         /\ r.summary[a].total.v = r.summary[b].total.v =>
              FirstAppearance(r.donations, r.summary[a].churchName)
                < FirstAppearance(r.donations, r.summary[b].churchName)

\* A result of three mapped records whose summary has two rows of equal
\* total.
C9_Witness ==
  /\ result # <<>>
  /\ Len(result[1].summary) = 2
  /\ result[1].summary[1].total = result[1].summary[2].total
  /\ Len(result[1].donations) = 3

\* C10: a record's assigned church is the name the mapping holds for its
\* cents, and the unmapped partition holds exactly the records whose cents
\* have no entry in the mapping.
C10_UnmappedIffNoEntry ==
  result # <<>> =>
    /\ \A j \in 1..Len(processedDonations) :
         processedDonations[j].cents \in DOMAIN mappings =>
           processedDonations[j].assignedChurch = mappings[processedDonations[j].cents]
    /\ result[1].unmappedDonations =
         SelectSeq(processedDonations, LAMBDA d : d.cents \notin DOMAIN mappings)
    /\ result[1].donations =
         SelectSeq(processedDonations, LAMBDA d : d.cents \in DOMAIN mappings)

\* C11: a second call with the same grid on the same processor settles as
\* the first did: the same result (records, flags, summary, stats, order),
\* or the same rejection.
C11_SecondRunIdentical ==
  (pc \in {"resolved", "rejected"} /\ previous # <<>>) =>
    previous[1] = [result |-> result, error |-> error]

\* A second call that resolved with a record flagged as duplicate in its
\* result.
C11_Witness ==
  /\ pc = "resolved" /\ previous # <<>>
  /\ \E j \in 1..Len(result[1].donations) : result[1].donations[j].isDuplicate
  /\ \E j \in 1..Len(result[1].donations) : ~result[1].donations[j].isDuplicate

\* The date cell parses: parseDate gives a date, and the date is a calendar
\* date.
DateParses(cell) == LET date == parseDate(cell) IN date.some /\ ~IsInvalidDate(date)

\* The amount cell parses: parseAmount gives a number.
AmountParses(cell) == ~IsNaN(parseAmount(cell))

\* The data rows of the grid that are non-empty and whose date and amount
\* cells both parse, in row order.
ParsingRows(grid, di, ai) ==
  IF grid = <<>> THEN <<>>
  ELSE SelectSeq(Tail(grid), LAMBDA row :
         row # <<>> /\ DateParses(CellAt(row, di)) /\ AmountParses(CellAt(row, ai)))

\* C12: once the parser has returned, its records are exactly the data rows
\* that are non-empty and whose date and amount cells both parse, in row
\* order; the rows that do not parse are in no collection of the result and
\* are not counted in stats.totalProcessed.
C12_EmitsExactlyParsingRows ==
  (pc \in {"processDonations", "separateByMapping", "generateSummary", "generateStats",
           "return", "resolved"}) =>
    LET rows == ParsingRows(data, dateIndex, amountIndex)
    IN /\ Len(donations) = Len(rows)
       /\ \A j \in 1..Len(rows) :
            <<donations[j]>> = ParsedRow(rows[j], dateIndex, amountIndex, donorIndex, descriptionIndex)
       /\ result # <<>> =>
            /\ result[1].stats.totalProcessed = Len(rows)
            /\ Len(result[1].donations) + Len(result[1].unmappedDonations) = Len(rows)

\* C13: duplicatesFound is the number of classified records flagged as
\* duplicate and negativeValuesFound the number with amount < 0, mapped and
\* unmapped together; unmappedCount is the length of unmappedDonations.
C13_StatsCountAllRecords ==
  result # <<>> =>
    LET r == result[1]
        all == processedDonations
    IN /\ r.stats.duplicatesFound = Cardinality({j \in 1..Len(all) : all[j].isDuplicate})
       /\ r.stats.negativeValuesFound =
            Cardinality({j \in 1..Len(all) : LessThanZero(all[j].amount)})
       /\ r.stats.unmappedCount = Len(r.unmappedDonations)

\* A result whose unmapped records hold a duplicate and a negative amount.
C13_Witness ==
  /\ result # <<>>
  /\ \E j \in 1..Len(result[1].unmappedDonations) : result[1].unmappedDonations[j].isDuplicate
  /\ \E j \in 1..Len(result[1].unmappedDonations) :
       LessThanZero(result[1].unmappedDonations[j].amount)
  /\ result[1].stats.duplicatesFound >= 1
  /\ result[1].stats.negativeValuesFound >= 1

\* C14: whatever was added, removed and imported, no two entries of the
\* mapping list have the same cents key, and every key is within 0..99.
C14_CentsUniqueInRange ==
  /\ \A j, h \in 1..Len(mappingList) : mappingList[j].cents = mappingList[h].cents => j = h
  /\ \A j \in 1..Len(mappingList) :
       /\ mappingList[j].cents.k = "fin"
       /\ mappingList[j].cents.v \in {c * Scale : c \in 0..99}

\* The least element of a non-empty set of integers.
Least(S) == CHOOSE x \in S : \A y \in S : x <= y

\* C15: findColumnIndex returns the leftmost index of a header containing
\* the first name, in the order given, that any header contains, and -1
\* exactly when no header contains any of the names.
C15_FirstNameThenLeftmostHeader ==
  (call # <<>> /\ returned # <<>> /\ call[1].fn = "findColumnIndex") =>
    LET headers == call[1].headers
        names == call[1].possibleNames
        found == {n \in 1..Len(names) : \E j \in 1..Len(headers) : Includes(headers[j], names[n])}
    IN IF found = {} THEN returned[1] = -1
       ELSE /\ returned[1] # -1
            /\ returned[1] + 1 =
                 Least({j \in 1..Len(headers) : Includes(headers[j], names[Least(found)])})

\* A call that returned a header to the right of a header that contains
\* only a later name.
C15_Witness ==
  /\ call # <<>> /\ returned # <<>> /\ call[1].fn = "findColumnIndex"
  /\ returned[1] >= 1
  /\ \E n \in 2..Len(call[1].possibleNames) :
       /\ Includes(call[1].headers[1], call[1].possibleNames[n])
       /\ \A h \in 1..(n - 1) : ~Includes(call[1].headers[1], call[1].possibleNames[h])

\* C16: for a numeric cell, parseDate returns the date 1899-12-30 plus the
\* cell's number of days when the number is finite, 0 included, and none
\* when the number is not finite.
C16_SerialDate ==
  (call # <<>> /\ returned # <<>> /\ call[1].fn = "parseDate" /\ call[1].value.t = "num") =>
    LET serial == call[1].value.n
    IN IF serial.k = "fin"
       THEN returned[1] = DateOf(Fin(DaysFromCivil(1899, 12, 30) * Scale + serial.v))
       ELSE returned[1] = NoDate

\* C17: the summary has one row for each church name among the mapped
\* records and no other row, none for the unmapped name; a row's count is
\* the number of mapped records of its church and its cents is the cents of
\* the first of them, also when records of different cents share the name.
C17_OneRowPerChurch ==
  result # <<>> =>
    LET r == result[1]
    IN /\ \A a, b \in 1..Len(r.summary) :
            r.summary[a].churchName = r.summary[b].churchName => a = b
       /\ {r.summary[j].churchName : j \in 1..Len(r.summary)}
            = {r.donations[j].assignedChurch : j \in 1..Len(r.donations)}
       /\ \A j \in 1..Len(r.summary) :
            /\ r.summary[j].churchName # NaoMapeado
            /\ r.summary[j].count
                 = Cardinality({h \in 1..Len(r.donations) :
                                  r.donations[h].assignedChurch = r.summary[j].churchName})
            /\ r.summary[j].cents
                 = r.donations[FirstAppearance(r.donations, r.summary[j].churchName)].cents

\* A result with a summary row whose church has records of two different
\* cents, next to unmapped records.
C17_Witness ==
  /\ result # <<>>
  /\ Len(result[1].unmappedDonations) >= 1
  /\ \E j \in 1..Len(result[1].summary) :
       LET members == MembersOf(result[1].donations, result[1].summary[j].churchName)
       IN \E a, b \in 1..Len(members) : a < b /\ members[a].cents # members[b].cents

\* C18: whenever results is not null, it is the result of processing the
\* file that selectedFile holds.
C18_ResultsOfSelectedFile ==
  results # <<>> => results[1].file = selectedFile

\* C19: when no run of processFile is awaiting, no progress timer is set,
\* and isProcessing = false implies processingProgress = 0.
C19_TimerClearedWhenFinished ==
  /\ running = <<>> => intervals = 0
  /\ ~isProcessing => processingProgress = 0

\* C20: the file FileUpload shows as selected and the selectedFile of Index
\* are both none or the same file.
C20_UploadAndPageAgree ==
  uploadSelectedFile = selectedFile

\* C21: for every record of the unmapped list, of either sign, the cents
\* shown in the table of unmapped donations are the record's cents, the key
\* its church was looked up with, written with two digits.
C21_ShownCentsAreClassifiedCents ==
  result # <<>> =>
    \A j \in 1..Len(result[1].unmappedDonations) :
      LET donation == result[1].unmappedDonations[j]
      IN CentavosCell(donation) = PadStart(NumberToText(donation.cents), 2)

====
